---- MODULE Spec2Model ----
(***************************************************************************)
(* Model of the two GUI components of the repository:                      *)
(*   - ShellWidget   (spyder/widgets/jupyter_qtconsole/shell.py)           *)
(*   - ScrollFlagArea (spyder/widgets/panels/scrollflag.py)                *)
(* Python floats are modelled by exact rationals <<n, d>> with d > 0, kept *)
(* in lowest terms; a division by zero is the ZeroDivisionError outcome.   *)
(* A QRect is the record of the four arguments its constructor is given.   *)
(***************************************************************************)
EXTENDS Integers, Sequences, FiniteSets, TLC

\* ------------------------------------------------------------------ bounds
\* Clients that may be bound to the shell widget.
NClients == 2
\* set_ipyclient calls in one run.
MaxBinds == 2
\* Directives sent to the execution backend in one run.
MaxExec == 2
\* pageStep ranges over 0..MaxPage.
MaxPage == 2
\* Pointer Y ranges over 0..MaxY.
MaxY == 3
\* Blocks (lines) of the document.
NLines == 2

\* ------------------------------------------------------- program constants
WIDTH == 12
FLAGS_DX == 4
FLAGS_DY == 2

\* ------------------------------------------------------- float arithmetic
Abs(n) == IF n < 0 THEN -n ELSE n

RECURSIVE GCD(_, _)
GCD(a, b) == IF b = 0 THEN a ELSE GCD(b, a % b)

\* The rational n/d (d # 0) in lowest terms with a positive denominator.
Rat(n, d) ==
    LET s == IF d < 0 THEN -1 ELSE 1
        g == GCD(Abs(n), Abs(d))
    IN  <<(s * n) \div g, (s * d) \div g>>

RInt(i) == <<i, 1>>
RAdd(a, b) == Rat(a[1] * b[2] + b[1] * a[2], a[2] * b[2])
RSub(a, b) == Rat(a[1] * b[2] - b[1] * a[2], a[2] * b[2])
RMul(a, b) == Rat(a[1] * b[1], a[2] * b[2])
\* a / b for b # 0; callers raise ZeroDivisionError first.
RDiv(a, b) == Rat(a[1] * b[2], a[2] * b[1])
RLe(a, b) == a[1] * b[2] <= b[1] * a[2]
RLt(a, b) == a[1] * b[2] < b[1] * a[2]
RIsZero(a) == a[1] = 0
RMax(a, b) == IF RLe(a, b) THEN b ELSE a
RMin(a, b) == IF RLe(a, b) THEN a ELSE b
RHalf == <<1, 2>>
\* int(x): truncation toward zero, as the binding converts a float argument
\* of QAbstractSlider.setValue(int).
RTrunc(a) == IF a[1] >= 0 THEN a[1] \div a[2] ELSE -((-a[1]) \div a[2])

\* Outcome of a computation that may raise: a value, or ZeroDivisionError.
Ok(v) == [ok |-> TRUE, v |-> v]
ZeroDivisionError == [ok |-> FALSE, v |-> <<0, 1>>]

\* ------------------------------------------------------------------ state
VARIABLES
    \* ShellWidget (shell.py)
    ipyclient,         \* self.ipyclient: None or the bound client
    exit_connections,  \* slots connected to the exit_requested signal, in order
    exit_called,       \* exit_callback invocations made by the last emission
    executed,          \* directives sent to the execution backend, in order
    accepted,          \* number of confirmations answered Yes so far
    shellOp,           \* the last shell operation and its input
    \* ScrollFlagArea (scrollflag.py) and the editor it reads
    vsb,               \* editor.verticalScrollBar(): minimum, maximum, pageStep, value, visible
    groove,            \* the scrollbar groove rectangle: y, height
    doc,               \* per block: userData (None or code_analysis, todo, breakpoint)
    blockHeights,      \* per block: height of its rendered bounding rectangle
    occurrences,       \* editor.occurrences: line numbers
    found_results,     \* editor.found_results: line numbers
    enabled,           \* self.enabled
    visible,           \* the panel's visibility (setVisible)
    drawn,             \* painter calls made by the last paint, in order
    raised,            \* exception left by the last handler
    setValueArg,       \* argument of the last vsb.setValue call
    op                 \* the last strip handler and its input

shellVars == <<ipyclient, exit_connections, exit_called, executed, accepted, shellOp>>
editorVars == <<vsb, groove, doc, blockHeights, occurrences, found_results>>
stripVars == <<editorVars, enabled, visible, drawn, raised, setValueArg, op>>
vars == <<shellVars, stripVars>>

\* ------------------------------------------------------------ ShellWidget
None == 0
Clients == 1..NClients
Yes == "Yes"
No == "No"
CLEAR == "%clear"
RESET == "%reset -f"
\* Code handed to silent_execute by callers.
SilentCodes == {RESET, "pass"}

\* self.execute(source): the source is sent to the backend, not hidden.
execute(source) == Append(executed, [code |-> source, silent |-> FALSE])

\* self.kernel_client.execute(code, silent=True)
kernel_execute_silent(code) == Append(executed, [code |-> code, silent |-> TRUE])

ShellInit ==
    /\ ipyclient = None
    /\ exit_connections = <<>>
    /\ exit_called = <<>>
    /\ executed = <<>>
    /\ accepted = 0
    /\ shellOp = [name |-> "__init__", arg |-> None]

\* self.ipyclient = ipyclient; self.exit_requested.connect(ipyclient.exit_callback)
\* A Qt connect adds a connection; it removes none.
set_ipyclient(c) ==
    /\ Len(exit_connections) < MaxBinds
    /\ ipyclient' = c
    /\ exit_connections' = Append(exit_connections, c)
    /\ shellOp' = [name |-> "set_ipyclient", arg |-> c]
    /\ UNCHANGED <<stripVars, exit_called, executed, accepted>>

\* The widget emits exit_requested: every connected slot runs, in connection order.
exit_requested ==
    /\ exit_called' = exit_connections
    /\ shellOp' = [name |-> "exit_requested", arg |-> None]
    /\ UNCHANGED <<stripVars, ipyclient, exit_connections, executed, accepted>>

clear_console ==
    /\ Len(executed) < MaxExec
    /\ executed' = execute(CLEAR)
    /\ shellOp' = [name |-> "clear_console", arg |-> None]
    /\ UNCHANGED <<stripVars, ipyclient, exit_connections, exit_called, accepted>>

\* Variant of reset_namespace_sends that ignores the answer.
reset_namespace_sends_unasked(reply) == execute(RESET)

\* The directives reset_namespace sends for a given answer of the message box.
reset_namespace_sends(reply) ==
    IF reply = Yes THEN execute(RESET) ELSE executed

reset_namespace(reply) ==
    /\ reply = Yes => Len(executed) < MaxExec
    /\ executed' = reset_namespace_sends(reply)
    /\ accepted' = IF reply = Yes THEN accepted + 1 ELSE accepted
    /\ shellOp' = [name |-> "reset_namespace", arg |-> reply]
    /\ UNCHANGED <<stripVars, ipyclient, exit_connections, exit_called>>

silent_execute(code) ==
    /\ Len(executed) < MaxExec
    /\ executed' = kernel_execute_silent(code)
    /\ shellOp' = [name |-> "silent_execute", arg |-> code]
    /\ UNCHANGED <<stripVars, ipyclient, exit_connections, exit_called, accepted>>

ShellNext ==
    \/ \E c \in Clients : set_ipyclient(c)
    \/ exit_requested
    \/ clear_console
    \/ \E reply \in {Yes, No} : reset_namespace(reply)
    \/ \E code \in SilentCodes : silent_execute(code)

\* --------------------------------------------------------- ScrollFlagArea
\* self.slider: whether the vertical scrollbar is visible.
slider == vsb.visible

\* self.offset: top of the groove rectangle.
offset == groove.y

get_scrollbar_position_height == RInt(groove.height)

get_scrollbar_value_height == vsb.maximum - vsb.minimum + vsb.pageStep

\* pixel span / value span; the division raises when the value span is 0.
get_scale_factor ==
    IF get_scrollbar_value_height = 0
    THEN ZeroDivisionError
    ELSE Ok(RDiv(get_scrollbar_position_height, RInt(get_scrollbar_value_height)))

\* Variant of value_to_position that forgets the groove offset.
value_to_position_no_offset(y) ==
    LET scale == get_scale_factor
    IN  IF ~scale.ok
        THEN ZeroDivisionError
        ELSE Ok(RMul(RSub(y, RInt(vsb.minimum)), scale.v))

\* (y - minimum) * scale + offset, y a float.
value_to_position(y) ==
    LET scale == get_scale_factor
    IN  IF ~scale.ok
        THEN ZeroDivisionError
        ELSE Ok(RAdd(RMul(RSub(y, RInt(vsb.minimum)), scale.v), RInt(offset)))

\* minimum + max([0, (y - offset) / scale]), y a position in pixels; the
\* division raises when the scale factor is 0.0.
position_to_value(y) ==
    LET scale == get_scale_factor
    IN  IF ~scale.ok \/ RIsZero(scale.v)
        THEN ZeroDivisionError
        ELSE Ok(RAdd(RInt(vsb.minimum),
                     RMax(RInt(0), RDiv(RSub(y, RInt(offset)), scale.v))))

QRect(x, y, w, h) == [x |-> x, y |-> y, w |-> w, h |-> h]

\* Lines of the document are numbered from 0; block i of doc is line i - 1.
Lines == 0..(NLines - 1)

\* blockBoundingGeometry(block).translated(contentOffset()).top(): blocks are
\* stacked from the top of the viewport.
RECURSIVE BlockTop(_)
BlockTop(line) ==
    IF line = 0 THEN 0 ELSE BlockTop(line - 1) + blockHeights[line]

\* Variant of make_flag_qrect that aligns a flag with the top of its line
\* (no 0.5 before scaling, block top instead of block middle).
make_flag_qrect_top(value) ==
    IF slider
    THEN LET position == value_to_position(RInt(value))
         IN  IF ~position.ok
             THEN ZeroDivisionError
             ELSE Ok(QRect(Rat(FLAGS_DX, 2),
                           RSub(position.v, Rat(FLAGS_DY, 2)),
                           WIDTH - FLAGS_DX, FLAGS_DY))
    ELSE Ok(QRect(Rat(FLAGS_DX, 2),
                  RSub(RInt(BlockTop(value)), Rat(FLAGS_DY, 2)),
                  WIDTH - FLAGS_DX, FLAGS_DY))

make_flag_qrect(value) ==
    IF slider
    THEN LET position == value_to_position(RAdd(RInt(value), RHalf))
         IN  IF ~position.ok
             THEN ZeroDivisionError
             ELSE Ok(QRect(Rat(FLAGS_DX, 2),
                           RSub(position.v, Rat(FLAGS_DY, 2)),
                           WIDTH - FLAGS_DX, FLAGS_DY))
    ELSE LET top == RInt(BlockTop(value))
             bottom == RAdd(top, RInt(blockHeights[value + 1]))
             middle == RDiv(RAdd(top, bottom), RInt(2))
         IN  Ok(QRect(Rat(FLAGS_DX, 2),
                      RSub(middle, Rat(FLAGS_DY, 2)),
                      WIDTH - FLAGS_DX, FLAGS_DY))

\* Height of the slider range indicator, as make_slider_range computes it.
slider_height == value_to_position(RInt(vsb.pageStep))

make_slider_range(cursor_y) ==
    LET groove_height == get_scrollbar_position_height
        height == slider_height
    IN  IF ~height.ok
        THEN ZeroDivisionError
        ELSE LET min_ypos == RInt(offset)
                 max_ypos == RSub(RAdd(groove_height, RInt(offset)), height.v)
                 slider_y == RMax(min_ypos,
                                  RMin(max_ypos,
                                       RSub(RInt(cursor_y), RMul(height.v, RHalf))))
             IN  Ok(QRect(1, slider_y, WIDTH - 2, height.v))

\* ------------------------------------------------------------- paintEvent
\* block.userData(): None, or data with code_analysis (one is_error flag per
\* diagnostic), todo and breakpoint.
NoData == [has |-> FALSE, code_analysis |-> <<>>, todo |-> FALSE, breakpoint |-> FALSE]
CodeAnalyses == {<<>>, <<FALSE>>, <<TRUE>>, <<FALSE, TRUE>>}
BlockData ==
    {NoData} \cup [has : {TRUE}, code_analysis : CodeAnalyses,
                   todo : BOOLEAN, breakpoint : BOOLEAN]

NullRect == QRect(0, <<0, 1>>, 0, 0)
Draw(kind, color, line, rect) ==
    [kind |-> kind, color |-> color, line |-> line, rect |-> rect]

\* color = warning_color; for _message, error in code_analysis: if error:
\* color = error_color; break
analysis_color(code_analysis) ==
    IF \E i \in 1..Len(code_analysis) : code_analysis[i]
    THEN "error" ELSE "warning"

\* Variant of block_flags that paints the breakpoint before the todo.
block_flags_breakpoint_early(data, line_number) ==
    IF ~data.has
    THEN <<>>
    ELSE (IF data.code_analysis # <<>>
          THEN <<[color |-> analysis_color(data.code_analysis), line |-> line_number]>>
          ELSE <<>>)
         \o (IF data.breakpoint
             THEN <<[color |-> "breakpoint", line |-> line_number]>> ELSE <<>>)
         \o (IF data.todo
             THEN <<[color |-> "todo", line |-> line_number]>> ELSE <<>>)

\* The marks one block asks for, in the order the loop body paints them.
block_flags(data, line_number) ==
    IF ~data.has
    THEN <<>>
    ELSE (IF data.code_analysis # <<>>
          THEN <<[color |-> analysis_color(data.code_analysis), line |-> line_number]>>
          ELSE <<>>)
         \o (IF data.todo
             THEN <<[color |-> "todo", line |-> line_number]>> ELSE <<>>)
         \o (IF data.breakpoint
             THEN <<[color |-> "breakpoint", line |-> line_number]>> ELSE <<>>)

\* for line_number in range(blockCount() + 1): the block after the last one
\* is invalid and carries no user data.
RECURSIVE document_flags(_)
document_flags(line_number) ==
    IF line_number > NLines
    THEN <<>>
    ELSE (IF line_number < NLines
          THEN block_flags(doc[line_number + 1], line_number)
          ELSE <<>>)
         \o document_flags(line_number + 1)

RECURSIVE highlight_flags(_, _)
highlight_flags(color, line_numbers) ==
    IF line_numbers = <<>>
    THEN <<>>
    ELSE <<[color |-> color, line |-> Head(line_numbers)]>>
         \o highlight_flags(color, Tail(line_numbers))

\* Every painter.drawRect(make_flag(line_number)) of one paint, in order.
flag_calls ==
    document_flags(0)
    \o highlight_flags("occurrence", occurrences)
    \o highlight_flags("found_results", found_results)

\* Runs the calls in order; a raising make_flag ends the paint.
RECURSIVE draw_flags(_, _)
draw_flags(calls, acc) ==
    IF calls = <<>>
    THEN [drawn |-> acc, raised |-> "none"]
    ELSE LET rect == make_flag_qrect(Head(calls).line)
         IN  IF ~rect.ok
             THEN [drawn |-> acc, raised |-> "ZeroDivisionError"]
             ELSE draw_flags(Tail(calls),
                             Append(acc, Draw("flag", Head(calls).color,
                                              Head(calls).line, rect.v)))

\* paintEvent with the pointer at cursor_y, inside the strip or not, and the
\* Alt modifier held or not.
paintEvent(cursor_y, inside, alt) ==
    LET flags == draw_flags(flag_calls, <<Draw("fill", "sideareas", -1, NullRect)>>)
    IN  IF flags.raised # "none"
        THEN flags
        ELSE IF (inside \/ alt) /\ slider
             THEN LET range == make_slider_range(cursor_y)
                  IN  IF ~range.ok
                      THEN [drawn |-> flags.drawn, raised |-> "ZeroDivisionError"]
                      ELSE [drawn |-> Append(flags.drawn,
                                             Draw("slider", "gray", -1, range.v)),
                            raised |-> "none"]
             ELSE flags

\* self.update(): the toolkit delivers a paint event only to a visible widget.
update(cursor_y, inside, alt) ==
    /\ IF visible
       THEN LET painted == paintEvent(cursor_y, inside, alt)
            IN  /\ drawn' = painted.drawn
                /\ raised' = painted.raised
                /\ op' = [name |-> "paintEvent", y |-> cursor_y,
                          indicator |-> (inside \/ alt) /\ slider,
                          state |-> TRUE]
       ELSE /\ drawn' = <<>>
            /\ raised' = "none"
            /\ op' = [name |-> "update", y |-> cursor_y, indicator |-> FALSE,
                          state |-> FALSE]
    /\ UNCHANGED <<shellVars, editorVars, enabled, visible, setValueArg>>

Ys == 0..MaxY
Key_Alt == "Key_Alt"
Keys == {Key_Alt, "Key_A"}

\* The pointer has entered the strip.
enterEvent == \E y \in Ys, alt \in BOOLEAN : update(y, TRUE, alt)

\* The pointer has left the strip.
leaveEvent == \E y \in Ys, alt \in BOOLEAN : update(y, FALSE, alt)

\* The pointer moved over the strip, or over the editor with Alt held
\* (editor.alt_mouse_moved_over).
mouseMoveEvent ==
    \E y \in Ys, inside, alt \in BOOLEAN : (inside \/ alt) /\ update(y, inside, alt)

\* if event.key() == Qt.Key_Alt: self.update()
keyPressEvent(key) ==
    IF key = Key_Alt
    THEN \E y \in Ys, inside \in BOOLEAN : update(y, inside, TRUE)
    ELSE UNCHANGED vars

keyReleaseEvent(key) ==
    IF key = Key_Alt
    THEN \E y \in Ys, inside \in BOOLEAN : update(y, inside, FALSE)
    ELSE UNCHANGED vars

\* QAbstractSlider.setValue(value): converted to int, bounded to the range.
setValue(value) ==
    LET v == RTrunc(value)
    IN  IF v < vsb.minimum THEN vsb.minimum
        ELSE IF v > vsb.maximum THEN vsb.maximum ELSE v

\* Variant of press_value that jumps to the clicked value without centering.
press_value_uncentered(y) == position_to_value(RInt(y))

\* The value mousePressEvent asks the scrollbar for.
press_value(y) ==
    LET value == position_to_value(RInt(y))
    IN  IF ~value.ok
        THEN ZeroDivisionError
        ELSE Ok(RSub(value.v, Rat(vsb.pageStep, 2)))

mousePressEvent(y) ==
    LET value == press_value(y)
    IN  /\ IF ~value.ok
           THEN /\ raised' = "ZeroDivisionError"
                /\ UNCHANGED <<vsb, setValueArg>>
           ELSE /\ raised' = "none"
                /\ setValueArg' = [set |-> TRUE, v |-> value.v]
                /\ vsb' = [vsb EXCEPT !.value = setValue(value.v)]
        /\ drawn' = <<>>
        /\ op' = [name |-> "mousePressEvent", y |-> y, indicator |-> FALSE,
                 state |-> visible]
        /\ UNCHANGED <<shellVars, groove, doc, blockHeights, occurrences,
                       found_results, enabled, visible>>

\* Variant of set_enabled that records the toggle but leaves the panel shown.
set_enabled_flag_only(state) ==
    /\ enabled' = state
    /\ drawn' = <<>>
    /\ raised' = "none"
    /\ op' = [name |-> "set_enabled", y |-> 0, indicator |-> FALSE, state |-> state]
    /\ UNCHANGED <<shellVars, editorVars, visible, setValueArg>>

\* self.enabled = state; self.setVisible(state)
set_enabled(state) ==
    /\ enabled' = state
    /\ visible' = state
    /\ drawn' = <<>>
    /\ raised' = "none"
    /\ op' = [name |-> "set_enabled", y |-> 0, indicator |-> FALSE, state |-> state]
    /\ UNCHANGED <<shellVars, editorVars, setValueArg>>

Next ==
    \/ enterEvent
    \/ leaveEvent
    \/ mouseMoveEvent
    \/ \E key \in Keys : keyPressEvent(key)
    \/ \E key \in Keys : keyReleaseEvent(key)
    \/ \E y \in Ys : mousePressEvent(y)
    \/ \E state \in BOOLEAN : set_enabled(state)

\* ------------------------------------------------------------------- Init
Minimums == {0, 1}
\* maximum - minimum
Ranges == {0, 1}
\* Groove (track) rectangles: top (the strip's offset) and pixel height.
Grooves == [y : {0, 1}, height : {0, 2}]

\* Scrollbar states: minimum <= value <= maximum, pageStep >= 0; the value
\* starts at the top of the document.
ScrollBars ==
    {[minimum |-> m, maximum |-> m + r, pageStep |-> p, value |-> m, visible |-> v] :
        m \in Minimums, r \in Ranges, p \in 0..MaxPage, v \in BOOLEAN}

\* Rendered block heights: every block one pixel row, or alternating 1 and 2.
BlockHeightProfiles ==
    {[i \in 1..NLines |-> 1], [i \in 1..NLines |-> 1 + (i % 2)]}

AllLines == [i \in 1..NLines |-> i - 1]

\* Documents: any user data on the first block; the second block carries
\* none, or every kind of flag; the blocks after it carry none.
FullyFlagged ==
    [has |-> TRUE, code_analysis |-> <<FALSE, TRUE>>, todo |-> TRUE, breakpoint |-> TRUE]
Documents ==
    {[i \in 1..NLines |-> IF i = 1 THEN first ELSE IF i = 2 THEN second ELSE NoData] :
        first \in BlockData, second \in {NoData, FullyFlagged}}

\* The strip after construction.
StripInit ==
    /\ enabled = TRUE
    /\ visible = TRUE
    /\ drawn = <<>>
    /\ raised = "none"
    /\ setValueArg = [set |-> FALSE, v |-> <<0, 1>>]
    /\ op = [name |-> "__init__", y |-> 0, indicator |-> FALSE, state |-> TRUE]

\* Geometry: every scrollbar and groove state; every line is an occurrence.
Init ==
    /\ ShellInit
    /\ StripInit
    /\ vsb \in ScrollBars
    /\ groove \in Grooves
    /\ doc = [i \in 1..NLines |-> NoData]
    /\ blockHeights \in BlockHeightProfiles
    /\ occurrences = AllLines
    /\ found_results = <<>>

Spec == Init /\ [][Next]_vars

\* Annotations: every document, three scrollbar states (scaled, hidden,
\* visible with a zero value span).
PaintScrollBars ==
    {sb \in ScrollBars :
        /\ sb.minimum = 0
        /\ \/ sb.maximum = 1 /\ sb.pageStep = 1
           \/ sb.maximum = 0 /\ sb.pageStep = 0 /\ sb.visible}

PaintInit ==
    /\ ShellInit
    /\ StripInit
    /\ vsb \in PaintScrollBars
    /\ groove = [y |-> 1, height |-> 2]
    /\ doc \in Documents
    /\ blockHeights = [i \in 1..NLines |-> 1]
    /\ \/ occurrences = <<>> /\ found_results = <<>>
       \/ occurrences = <<0>> /\ found_results = AllLines

PaintSpec == PaintInit /\ [][Next]_vars

\* The shell widget, beside a strip left as constructed.
ShellSpecInit ==
    /\ ShellInit
    /\ StripInit
    /\ vsb = [minimum |-> 0, maximum |-> 0, pageStep |-> 0, value |-> 0, visible |-> FALSE]
    /\ groove = [y |-> 0, height |-> 0]
    /\ doc = [i \in 1..NLines |-> NoData]
    /\ blockHeights = [i \in 1..NLines |-> 1]
    /\ occurrences = <<>>
    /\ found_results = <<>>

ShellSpec == ShellSpecInit /\ [][ShellNext]_vars

\* ----------------------------------------------------------------- claims
Last(seq) == seq[Len(seq)]
Max0(i) == IF i < 0 THEN 0 ELSE i
ValueSpan == vsb.maximum - vsb.minimum + vsb.pageStep
TrackHeight == groove.height
\* The mapping is defined: the value span and the scale factor are not zero.
Scaled == ValueSpan # 0 /\ TrackHeight # 0
SliderDraws == {i \in 1..Len(drawn) : drawn[i].kind = "slider"}
FlagDraws == {i \in 1..Len(drawn) : drawn[i].kind = "flag"}

\* C1: after any sequence of set_ipyclient calls the stored client is the
\* last one bound, and an exit_requested emission runs the exit handler of
\* that client only.
C1_OnlyLastClientBound ==
    /\ exit_connections # <<>> => ipyclient = Last(exit_connections)
    /\ (shellOp.name = "exit_requested" /\ ipyclient # None)
           => /\ exit_called # <<>>
              /\ \A i \in 1..Len(exit_called) : exit_called[i] = ipyclient

ResetDirectives(seq) ==
    Cardinality({i \in 1..Len(seq) : seq[i] = [code |-> RESET, silent |-> FALSE]})

\* C2: a declined reset_namespace sends nothing, an accepted one sends
\* exactly one "%reset -f" directive, so the number of "%reset -f"
\* directives sent by self.execute equals the number of accepted
\* confirmations.
C2_ResetNamespace ==
    [][/\ shellOp'.name = "reset_namespace"
             => /\ shellOp'.arg = No => executed' = executed
                /\ shellOp'.arg = Yes
                      => executed' = Append(executed, [code |-> RESET, silent |-> FALSE])
       /\ ResetDirectives(executed') = accepted']_vars
C2_Witness ==
    /\ shellOp.name = "reset_namespace"
    /\ shellOp.arg = No
    /\ accepted = 1
    /\ Len(executed) = MaxExec

\* C3: the slider range indicator drawn by a paint lies within the track:
\* offset <= y <= track height + offset - indicator height.
C3_IndicatorWithinTrack ==
    \A i \in SliderDraws :
        /\ RLe(RInt(offset), drawn[i].rect.y)
        /\ RLe(drawn[i].rect.y,
               RSub(RInt(TrackHeight + offset), drawn[i].rect.h))

\* C4: with the scrollbar visible and a zero value span, no handler fails
\* with a division by zero.
C4_ZeroSpanGuarded ==
    (slider /\ ValueSpan = 0) => raised # "ZeroDivisionError"

\* C5: where the mapping is defined, a press at pixel y asks the scrollbar
\* for minimum + max(0, (y - offset) / scale) - pageStep / 2; the mapped value
\* is never below the minimum and is the minimum for every y at or above the
\* track top; the press changes nothing but the scrollbar value, which takes
\* the requested value as an integer bounded to the scrollbar's range.  The
\* press raises exactly where the mapping is undefined, and then changes
\* nothing.
C5_PressRequestsCenteredValue ==
    [][op'.name = "mousePressEvent"
          => /\ UNCHANGED <<shellVars, groove, doc, blockHeights, occurrences,
                            found_results, enabled, visible>>
             /\ (raised' = "none") = Scaled
             /\ ~Scaled => UNCHANGED <<vsb, setValueArg>>
             /\ Scaled
                   => LET mapped == Rat(vsb.minimum * TrackHeight
                                           + Max0(op'.y - offset) * ValueSpan,
                                        TrackHeight)
                          asked == RSub(mapped, Rat(vsb.pageStep, 2))
                      IN  /\ setValueArg' = [set |-> TRUE, v |-> asked]
                          /\ RLe(RInt(vsb.minimum), mapped)
                          /\ op'.y <= offset => mapped = RInt(vsb.minimum)
                          /\ vsb' = [vsb EXCEPT !.value = vsb'.value]
                          /\ vsb'.value \in vsb.minimum..vsb.maximum
                          /\ RLe(RInt(vsb.minimum), asked) /\ RLe(asked, RInt(vsb.maximum))
                                => vsb'.value = RTrunc(asked)]_vars
C5_Witness ==
    /\ op.name = "mousePressEvent"
    /\ raised = "none"
    /\ op.y > offset
    /\ vsb.pageStep = 1
    /\ setValueArg = [set |-> TRUE, v |-> <<1, 2>>]
    /\ vsb.value = vsb.minimum

HalfValues ==
    {Rat(n, 2) : n \in (2 * vsb.minimum)..(2 * vsb.maximum)}

\* C6: in scaled mode, position_to_value(value_to_position(v)) = v for every
\* value v (whole or half) between the scrollbar's minimum and maximum.
C6_RoundTrip ==
    (slider /\ Scaled)
        => \A v \in HalfValues :
              /\ value_to_position(v).ok
              /\ position_to_value(value_to_position(v).v) = Ok(v)
C6_Witness ==
    /\ slider /\ Scaled
    /\ vsb.maximum > vsb.minimum
    /\ op.name = "mousePressEvent"
    /\ offset > 0
    /\ value_to_position(RInt(vsb.maximum)) = Ok(RInt(op.y))
    /\ setValueArg = [set |-> TRUE, v |-> RSub(RInt(vsb.maximum), Rat(vsb.pageStep, 2))]

FlagCenter(rect) == RAdd(rect.y, Rat(rect.h, 2))
RECURSIVE HeightsAbove(_)
HeightsAbove(line) ==
    IF line = 0 THEN 0 ELSE blockHeights[line] + HeightsAbove(line - 1)
MappedPosition(line) ==
    IF slider
    THEN Rat((2 * line + 1 - 2 * vsb.minimum) * TrackHeight + 2 * offset * ValueSpan,
             2 * ValueSpan)
    ELSE Rat(2 * HeightsAbove(line) + blockHeights[line + 1], 2)

\* C7: every flag a paint draws for line L has height FLAGS_DY and its
\* vertical center at L's mapped position: (L + 0.5 - minimum) * scale + offset
\* with scale = track height / value span when the scrollbar is visible, the
\* vertical center of L's rendered block (whatever the scrollbar's minimum,
\* maximum and pageStep) when it is hidden.
C7_FlagCenteredOnLine ==
    \A i \in FlagDraws :
        /\ drawn[i].rect.h = FLAGS_DY
        /\ FlagCenter(drawn[i].rect) = MappedPosition(drawn[i].line)
C7_Witness ==
    /\ op.name = "paintEvent"
    /\ raised = "none"
    /\ slider
    /\ vsb.minimum = 1 /\ vsb.maximum = 2 /\ vsb.pageStep = 1
    /\ groove = [y |-> 1, height |-> 2]
    /\ \E i \in FlagDraws :
          /\ drawn[i].line = 1
          /\ FlagCenter(drawn[i].rect) = <<3, 2>>

\* C8: set_enabled(state) sets the enabled toggle and the visibility to
\* state and changes nothing else; while the strip is disabled every paint
\* request draws nothing and raises nothing.
C8_SetEnabled ==
    /\ []((~enabled /\ op.name \in {"update", "paintEvent"})
             => (op.name = "update" /\ drawn = <<>> /\ raised = "none"))
    /\ [][op'.name = "set_enabled"
             => /\ enabled' = op'.state
                /\ visible' = op'.state
                /\ UNCHANGED <<shellVars, editorVars, setValueArg>>]_vars
C8_Witness ==
    /\ ~enabled
    /\ op.name = "update"
    /\ occurrences # <<>>
    /\ slider /\ Scaled

\* C9: the slider range indicator drawn by a paint has height
\* pageStep * scale factor.
C9_IndicatorHeightIsPageStep ==
    \A i \in SliderDraws :
        drawn[i].rect.h = Rat(vsb.pageStep * TrackHeight, ValueSpan)

AnnotationColors == {"error", "warning", "todo", "breakpoint"}
IsAnnotation(d) == d.kind = "flag" /\ d.color \in AnnotationColors
ColorsOf(seq) == [i \in 1..Len(seq) |-> seq[i].color]
AnnotationMarks == SelectSeq(drawn, IsAnnotation)
MarksOfLine(line) ==
    SelectSeq(drawn, LAMBDA d : IsAnnotation(d) /\ d.line = line)
ExpectedColors(data) ==
    IF ~data.has
    THEN <<>>
    ELSE (IF data.code_analysis = <<>> THEN <<>>
          ELSE IF TRUE \in {data.code_analysis[i] : i \in DOMAIN data.code_analysis}
               THEN <<"error">> ELSE <<"warning">>)
         \o (IF data.todo THEN <<"todo">> ELSE <<>>)
         \o (IF data.breakpoint THEN <<"breakpoint">> ELSE <<>>)

\* C10: a paint that completes draws, line by line in document order, the
\* annotation marks of each line in the order diagnostics, todo, breakpoint,
\* one per category present, the diagnostics mark in the error color if any
\* diagnostic of the line is an error and in the warning color otherwise; so
\* the last annotation mark of a line with a breakpoint is the breakpoint
\* mark, and a line without user data gets no annotation mark.
C10_AnnotationOrder ==
    (op.name = "paintEvent" /\ raised = "none")
        => /\ \A line \in Lines :
                 /\ ColorsOf(MarksOfLine(line)) = ExpectedColors(doc[line + 1])
                 /\ doc[line + 1].breakpoint
                       => Last(MarksOfLine(line)).color = "breakpoint"
           /\ \A i \in 1..Len(AnnotationMarks) :
                 /\ AnnotationMarks[i].line \in Lines
                 /\ i > 1 => AnnotationMarks[i - 1].line <= AnnotationMarks[i].line
C10_Witness ==
    /\ op.name = "paintEvent"
    /\ raised = "none"
    /\ doc[1] = FullyFlagged
    /\ doc[NLines] = NoData
    /\ ColorsOf(AnnotationMarks) = <<"error", "todo", "breakpoint">>

====
